---- MODULE Spec2Model ----
(***************************************************************************)
(* The MLLP outbound connection pool of mllp_http_https/https2mllp.py:     *)
(* MllpClient (the idle list `connections`, its lock, send, _connect and   *)
(* the per-connection watchdog thread _check_connection) and               *)
(* MllpConnection (closed, last_update, message_count, socket, close,      *)
(* send).                                                                  *)
(*                                                                         *)
(* Every thread is a small program counter machine.  One action is one     *)
(* step a Python thread can take without another thread observing an       *)
(* intermediate state: the body of a `with self.lock` block is one action   *)
(* (the lock excludes every other access to the list), and every unlocked  *)
(* read or write of a shared attribute is an action of its own.            *)
(* Time is time.monotonic() in whole seconds.                              *)
(***************************************************************************)
EXTENDS Integers, Sequences, FiniteSets, TLC

\* ---- bounds of the model
NumThreads == 2        \* request threads that call MllpClient.send
MaxConns == 2          \* sockets _connect may open in one run
MaxSends == 4          \* calls of MllpClient.send in one run
MaxTime == 3           \* last value of time.monotonic()

\* ---- values of the program
NoTime == -1           \* None in MllpConnection.last_update
NoConn == 0            \* None in the local `connection` of MllpClient.send

\* MllpClientOptions.keep_alive and .max_messages: the values that are run
KeepAliveValues == {-1, 0, 2, 5}
MaxMessagesValues == {-1, 1, 3}

Threads == 1..NumThreads
Conns == 1..MaxConns

Free == <<"free", 0>>
SendHolder(t) == <<"send", t>>
WatchdogHolder(c) == <<"watchdog", c>>

VARIABLES
    keep_alive,      \* MllpClientOptions.keep_alive
    max_messages,    \* MllpClientOptions.max_messages
    connections,     \* MllpClient.connections, the idle list
    lock,            \* MllpClient.lock: Free or its holder
    nConn,           \* MllpConnection objects constructed so far: 1..nConn
    closed,          \* MllpConnection.closed
    closeAttr,       \* TRUE once the instance attribute `close` holds True
    sockOpen,        \* the socket is connected and not yet closed
    last_update,     \* MllpConnection.last_update (NoTime is None)
    message_count,   \* MllpConnection.message_count
    pc,              \* where each request thread is in MllpClient.send
    conn,            \* the local `connection` of each request thread
    wpc,             \* where each watchdog is in _check_connection
    wlu,             \* the last_update a watchdog has read for the subtraction
    wake,            \* the time a sleeping watchdog's time.sleep ends
    now,             \* time.monotonic()
    \* history, written and never read by the program
    sendsStarted,    \* calls of MllpClient.send
    sendsDone,       \* calls of MllpClient.send that returned a response
    nFailed,         \* calls of MllpClient.send that raised
    overlap,         \* some send began while another send was in progress
    closeCalls,      \* invocations of connection.close() per connection
    closedBy,        \* who closed the socket: "none", "watchdog" or "send"
    evictions,       \* successful removals by the watchdog per connection
    broken,          \* a send on the connection raised
    order            \* the idle connections, oldest append first

cfgVars == <<keep_alive, max_messages>>
connVars == <<closed, closeAttr, sockOpen, last_update, message_count>>
sendVars == <<pc, conn>>
wdVars == <<wpc, wlu, wake>>
histVars == <<sendsStarted, sendsDone, nFailed, overlap, closeCalls, closedBy,
              evictions, broken, order>>
vars == <<cfgVars, connections, lock, nConn, connVars, sendVars, wdVars, now,
          histVars>>

\* ---- pure helpers

\* mutant of PopRest: the element is read and left in the list
PopRestKeepsItem(s) == s

\* list.pop(): what is left of the list once its last element is taken
PopRest(s) == SubSeq(s, 1, Len(s) - 1)

\* list.pop(): the element taken, the last one
PopItem(s) == s[Len(s)]

InList(s, c) == \E i \in 1..Len(s) : s[i] = c

\* mutant of RemoveFirst: the element is found and left in the list
RemoveFirstKeepsItem(s, c) == s

\* list.remove(x): the list without the first occurrence of x
RECURSIVE RemoveFirst(_, _)
RemoveFirst(s, c) ==
    IF s = <<>> THEN <<>>
    ELSE IF Head(s) = c THEN Tail(s)
    ELSE <<Head(s)>> \o RemoveFirst(Tail(s), c)

\* mutant of RotationDue: the bound compared with < instead of <=
RotationDueStrict(c) == max_messages < message_count[c] /\ max_messages >= 0

\* mutant of RotationDue: the test of a non-negative bound left out
RotationDueUnguarded(c) == max_messages <= message_count[c]

\* `self.options.max_messages <= connection.message_count and
\*  self.options.max_messages >= 0`
RotationDue(c) == max_messages <= message_count[c] /\ max_messages >= 0

\* `remaining = self.options.keep_alive + elasped`, where elasped is
\* `connection.last_update - time.monotonic()` or 0
Remaining(elasped) == keep_alive + elasped

\* mutant of WatchdogCloses: only keep_alive = 0 is spared the close
WatchdogClosesUnlessZero == keep_alive # 0

\* `if self.options.keep_alive > 0:` before the watchdog's connection.close()
WatchdogCloses == keep_alive > 0

Min(a, b) == IF a < b THEN a ELSE b

\* a history sequence without c
Without(s, c) == SelectSeq(s, LAMBDA x : x # c)

\* a request thread holds c between its acquisition and its release
Leased(c) == \E t \in Threads : conn[t] = c

\* ---- initial state: MllpClient.__init__ with one MllpClientOptions

Init ==
    /\ keep_alive \in KeepAliveValues
    /\ max_messages \in MaxMessagesValues
    /\ connections = <<>>
    /\ lock = Free
    /\ nConn = 0
    /\ closed = [c \in Conns |-> FALSE]
    /\ closeAttr = [c \in Conns |-> FALSE]
    /\ sockOpen = [c \in Conns |-> FALSE]
    /\ last_update = [c \in Conns |-> NoTime]
    /\ message_count = [c \in Conns |-> 0]
    /\ pc = [t \in Threads |-> "idle"]
    /\ conn = [t \in Threads |-> NoConn]
    /\ wpc = [c \in Conns |-> "off"]
    /\ wlu = [c \in Conns |-> NoTime]
    /\ wake = [c \in Conns |-> 0]
    /\ now = 0
    /\ sendsStarted = 0
    /\ sendsDone = 0
    /\ nFailed = 0
    /\ overlap = FALSE
    /\ closeCalls = [c \in Conns |-> 0]
    /\ closedBy = [c \in Conns |-> "none"]
    /\ evictions = [c \in Conns |-> 0]
    /\ broken = [c \in Conns |-> FALSE]
    /\ order = <<>>

\* ---- MllpConnection.close, called by `by` ("send" or "watchdog").
\* `self.close = True` replaces the method on the instance and never touches
\* `closed`; a second call would find True where the method was and raise
\* TypeError before reaching the socket.  shutdown(2) and close() of the
\* connected socket are taken to succeed.
CloseRaises(c) == closeAttr[c]

Close(c, by) ==
    /\ closeCalls' = [closeCalls EXCEPT ![c] = Min(@ + 1, 2)]
    /\ closeAttr' = [closeAttr EXCEPT ![c] = TRUE]
    /\ sockOpen' = IF CloseRaises(c) THEN sockOpen
                   ELSE [sockOpen EXCEPT ![c] = FALSE]
    /\ closedBy' = IF CloseRaises(c) THEN closedBy
                   ELSE [closedBy EXCEPT ![c] = by]
    /\ UNCHANGED closed

\* ---- MllpClient.send, one request thread t

\* `with self.lock:` entered
SendLock(t) ==
    /\ pc[t] = "idle"
    /\ sendsStarted < MaxSends
    /\ lock = Free
    /\ lock' = SendHolder(t)
    /\ pc' = [pc EXCEPT ![t] = "pop"]
    /\ sendsStarted' = sendsStarted + 1
    /\ UNCHANGED <<cfgVars, connections, nConn, connVars, conn, wdVars, now,
                   sendsDone, nFailed, overlap, closeCalls, closedBy,
                   evictions, broken, order>>

\* mutant of SendPop: the lock is not released when the block is left, as if
\* the rest of send were inside it
SendPopKeepsLock(t) ==
    /\ pc[t] = "pop"
    /\ lock = SendHolder(t)
    /\ overlap' = (overlap \/ \E u \in Threads \ {t} : pc[u] # "idle")
    /\ order' = IF connections = <<>> THEN order
                ELSE Without(order, PopItem(connections))
    /\ IF connections = <<>>
       THEN /\ conn' = [conn EXCEPT ![t] = NoConn]
            /\ pc' = [pc EXCEPT ![t] = "connect"]
            /\ UNCHANGED <<connections, last_update>>
       ELSE /\ conn' = [conn EXCEPT ![t] = PopItem(connections)]
            /\ connections' = PopRest(connections)
            /\ last_update' = [last_update EXCEPT ![PopItem(connections)] = NoTime]
            /\ pc' = [pc EXCEPT ![t] = "send"]
    /\ UNCHANGED <<cfgVars, lock, nConn, closed, closeAttr, sockOpen,
                   message_count, wdVars, now, sendsStarted, sendsDone, nFailed,
                   closeCalls, closedBy, evictions, broken>>

\* the body of the block: pop, or None on IndexError; last_update = None
SendPop(t) ==
    /\ pc[t] = "pop"
    /\ lock = SendHolder(t)
    /\ lock' = Free
    /\ overlap' = (overlap \/ \E u \in Threads \ {t} : pc[u] # "idle")
    /\ order' = IF connections = <<>> THEN order
                ELSE Without(order, PopItem(connections))
    /\ IF connections = <<>>
       THEN /\ conn' = [conn EXCEPT ![t] = NoConn]
            /\ pc' = [pc EXCEPT ![t] = "connect"]
            /\ UNCHANGED <<connections, last_update>>
       ELSE /\ conn' = [conn EXCEPT ![t] = PopItem(connections)]
            /\ connections' = PopRest(connections)
            /\ last_update' = [last_update EXCEPT ![PopItem(connections)] = NoTime]
            /\ pc' = [pc EXCEPT ![t] = "send"]
    /\ UNCHANGED <<cfgVars, nConn, closed, closeAttr, sockOpen, message_count,
                   wdVars, now, sendsStarted, sendsDone, nFailed, closeCalls,
                   closedBy, evictions, broken>>

\* `connection = self._connect()`: a socket is connected, the MllpConnection
\* constructed and its watchdog thread started
Connect(t) ==
    /\ pc[t] = "connect"
    /\ nConn < MaxConns
    /\ nConn' = nConn + 1
    /\ closed' = [closed EXCEPT ![nConn + 1] = FALSE]
    /\ last_update' = [last_update EXCEPT ![nConn + 1] = NoTime]
    /\ message_count' = [message_count EXCEPT ![nConn + 1] = 0]
    /\ sockOpen' = [sockOpen EXCEPT ![nConn + 1] = TRUE]
    /\ wpc' = [wpc EXCEPT ![nConn + 1] = "check"]
    /\ conn' = [conn EXCEPT ![t] = nConn + 1]
    /\ pc' = [pc EXCEPT ![t] = "send"]
    /\ UNCHANGED <<cfgVars, connections, lock, closeAttr, wlu, wake, now,
                   histVars>>

\* mutant of ConnectFails: the MllpConnection and its watchdog exist before
\* s.connect raises
ConnectFailsStartsWatchdog(t) ==
    /\ pc[t] = "connect"
    /\ nConn < MaxConns
    /\ nConn' = nConn + 1
    /\ wpc' = [wpc EXCEPT ![nConn + 1] = "check"]
    /\ pc' = [pc EXCEPT ![t] = "idle"]
    /\ nFailed' = nFailed + 1
    /\ UNCHANGED <<cfgVars, connections, lock, connVars, conn, wlu, wake,
                   now, sendsStarted, sendsDone, overlap, closeCalls, closedBy,
                   evictions, broken, order>>

\* s.connect(self.address) raises: send raises, nothing was constructed
ConnectFails(t) ==
    /\ pc[t] = "connect"
    /\ pc' = [pc EXCEPT ![t] = "idle"]
    /\ nFailed' = nFailed + 1
    /\ UNCHANGED <<cfgVars, connections, lock, nConn, connVars, conn, wdVars,
                   now, sendsStarted, sendsDone, overlap, closeCalls, closedBy,
                   evictions, broken, order>>

\* mutant of ConnectionSend: the increment of message_count is left out
ConnectionSendNoCount(t) ==
    /\ pc[t] = "send"
    /\ pc' = [pc EXCEPT ![t] = "release"]
    /\ UNCHANGED <<cfgVars, connections, lock, nConn, connVars, conn, wdVars,
                   now, histVars>>

\* `response = connection.send(data)`: message_count += 1, then send_mllp
ConnectionSend(t) ==
    /\ pc[t] = "send"
    /\ message_count' = [message_count EXCEPT ![conn[t]] = @ + 1]
    /\ pc' = [pc EXCEPT ![t] = "release"]
    /\ UNCHANGED <<cfgVars, connections, lock, nConn, closed, closeAttr,
                   sockOpen, last_update, conn, wdVars, now, histVars>>

\* mutant of ConnectionSendFails: the error is swallowed and send goes on to
\* release the connection
ConnectionSendFailsPools(t) ==
    /\ pc[t] = "send"
    /\ message_count' = [message_count EXCEPT ![conn[t]] = @ + 1]
    /\ broken' = [broken EXCEPT ![conn[t]] = TRUE]
    /\ pc' = [pc EXCEPT ![t] = "release"]
    /\ nFailed' = nFailed + 1
    /\ UNCHANGED <<cfgVars, connections, lock, nConn, closed, closeAttr,
                   sockOpen, last_update, conn, wdVars, now, sendsStarted,
                   sendsDone, overlap, closeCalls, closedBy, evictions, order>>

\* send_mllp raises after the increment: send raises, the connection is
\* neither closed nor appended
ConnectionSendFails(t) ==
    /\ pc[t] = "send"
    /\ message_count' = [message_count EXCEPT ![conn[t]] = @ + 1]
    /\ broken' = [broken EXCEPT ![conn[t]] = TRUE]
    /\ pc' = [pc EXCEPT ![t] = "idle"]
    /\ conn' = [conn EXCEPT ![t] = NoConn]
    /\ nFailed' = nFailed + 1
    /\ UNCHANGED <<cfgVars, connections, lock, nConn, closed, closeAttr,
                   sockOpen, last_update, wdVars, now, sendsStarted, sendsDone,
                   overlap, closeCalls, closedBy, evictions, order>>

\* the bound is reached: connection.close(), return response
SendClose(t) ==
    /\ pc[t] = "release"
    /\ RotationDue(conn[t])
    /\ Close(conn[t], "send")
    /\ pc' = [pc EXCEPT ![t] = "idle"]
    /\ conn' = [conn EXCEPT ![t] = NoConn]
    /\ sendsDone' = IF CloseRaises(conn[t]) THEN sendsDone ELSE sendsDone + 1
    /\ nFailed' = IF CloseRaises(conn[t]) THEN nFailed + 1 ELSE nFailed
    /\ UNCHANGED <<cfgVars, connections, lock, nConn, last_update,
                   message_count, wdVars, now, sendsStarted, overlap,
                   evictions, broken, order>>

\* otherwise: connection.last_update = time.monotonic(), outside the lock
SendStamp(t) ==
    /\ pc[t] = "release"
    /\ ~RotationDue(conn[t])
    /\ last_update' = [last_update EXCEPT ![conn[t]] = now]
    /\ pc' = [pc EXCEPT ![t] = "appendlock"]
    /\ UNCHANGED <<cfgVars, connections, lock, nConn, closed, closeAttr,
                   sockOpen, message_count, conn, wdVars, now, histVars>>

\* `with self.lock:` entered
SendAppendLock(t) ==
    /\ pc[t] = "appendlock"
    /\ lock = Free
    /\ lock' = SendHolder(t)
    /\ pc' = [pc EXCEPT ![t] = "append"]
    /\ UNCHANGED <<cfgVars, connections, nConn, connVars, conn, wdVars, now,
                   histVars>>

\* mutant of Appended: the connection is put in front, as insert(0, x) does
AppendedInFront(s, c) == <<c>> \o s

\* the list the append leaves
Appended(s, c) == Append(s, c)

\* self.connections.append(connection); return response
SendAppend(t) ==
    /\ pc[t] = "append"
    /\ lock = SendHolder(t)
    /\ lock' = Free
    /\ connections' = Appended(connections, conn[t])
    /\ pc' = [pc EXCEPT ![t] = "idle"]
    /\ conn' = [conn EXCEPT ![t] = NoConn]
    /\ sendsDone' = sendsDone + 1
    /\ order' = Append(order, conn[t])
    /\ UNCHANGED <<cfgVars, nConn, connVars, wdVars, now, sendsStarted,
                   nFailed, overlap, closeCalls, closedBy, evictions, broken>>

\* ---- MllpClient._check_connection, the watchdog thread of connection c

\* `time.sleep(remaining)` or the removal, by `if 0 < remaining:`
WatchdogDecide(c, remaining) ==
    IF 0 < remaining
    THEN /\ wpc' = [wpc EXCEPT ![c] = "sleep"]
         /\ wake' = [wake EXCEPT ![c] = now + remaining]
    ELSE /\ wpc' = [wpc EXCEPT ![c] = "removelock"]
         /\ wake' = wake

\* `while not connection.closed:` and the test `connection.last_update is not
\* None` of the conditional expression; when it is None, elasped is 0
WatchdogCheck(c) ==
    /\ wpc[c] = "check"
    /\ IF closed[c]
       THEN /\ wpc' = [wpc EXCEPT ![c] = "exit"]
            /\ wake' = wake
       ELSE IF last_update[c] # NoTime
       THEN /\ wpc' = [wpc EXCEPT ![c] = "read"]
            /\ wake' = wake
       ELSE WatchdogDecide(c, Remaining(0))
    /\ UNCHANGED <<cfgVars, connections, lock, nConn, connVars, sendVars, wlu,
                   now, histVars>>

\* the second read, `connection.last_update` of `connection.last_update -
\* time.monotonic()`: None here makes the subtraction raise TypeError, which
\* ends the thread
WatchdogRead(c) ==
    /\ wpc[c] = "read"
    /\ IF last_update[c] = NoTime
       THEN /\ wpc' = [wpc EXCEPT ![c] = "dead"]
            /\ wlu' = wlu
       ELSE /\ wpc' = [wpc EXCEPT ![c] = "calc"]
            /\ wlu' = [wlu EXCEPT ![c] = last_update[c]]
    /\ UNCHANGED <<cfgVars, connections, lock, nConn, connVars, sendVars, wake,
                   now, histVars>>

\* time.monotonic() is read, the subtraction and `remaining` computed
WatchdogCalc(c) ==
    /\ wpc[c] = "calc"
    /\ WatchdogDecide(c, Remaining(wlu[c] - now))
    /\ wlu' = [wlu EXCEPT ![c] = NoTime]
    /\ UNCHANGED <<cfgVars, connections, lock, nConn, connVars, sendVars, now,
                   histVars>>

\* time.sleep(remaining) returns
WatchdogWake(c) ==
    /\ wpc[c] = "sleep"
    /\ wake[c] <= now
    /\ wpc' = [wpc EXCEPT ![c] = "check"]
    /\ wake' = [wake EXCEPT ![c] = 0]
    /\ UNCHANGED <<cfgVars, connections, lock, nConn, connVars, sendVars, wlu,
                   now, histVars>>

\* `with self.lock:` entered
WatchdogRemoveLock(c) ==
    /\ wpc[c] = "removelock"
    /\ lock = Free
    /\ lock' = WatchdogHolder(c)
    /\ wpc' = [wpc EXCEPT ![c] = "remove"]
    /\ UNCHANGED <<cfgVars, connections, nConn, connVars, sendVars, wlu, wake,
                   now, histVars>>

\* mutant of AfterRemove: the close is not in the else clause of the try, so
\* it also runs after a ValueError
AfterRemoveAlwaysCloses(found) ==
    IF WatchdogCloses THEN "close" ELSE "check"

\* mutant of AfterRemove: the ValueError handler leaves the loop
AfterRemoveExits(found) ==
    IF ~found THEN "exit" ELSE IF WatchdogCloses THEN "close" ELSE "check"

\* where the watchdog goes after `self.connections.remove(connection)`:
\* ValueError is passed and the loop goes on; without it the else clause
\* closes when keep_alive > 0
AfterRemove(found) ==
    IF found /\ WatchdogCloses THEN "close" ELSE "check"

\* self.connections.remove(connection) under the lock
WatchdogRemove(c) ==
    /\ wpc[c] = "remove"
    /\ lock = WatchdogHolder(c)
    /\ lock' = Free
    /\ connections' = RemoveFirst(connections, c)
    /\ evictions' = IF InList(connections, c)
                    THEN [evictions EXCEPT ![c] = Min(@ + 1, 2)]
                    ELSE evictions
    /\ wpc' = [wpc EXCEPT ![c] = AfterRemove(InList(connections, c))]
    /\ order' = Without(order, c)
    /\ UNCHANGED <<cfgVars, nConn, connVars, sendVars, wlu, wake, now,
                   sendsStarted, sendsDone, nFailed, overlap, closeCalls,
                   closedBy, broken>>

\* connection.close() of the else clause; a TypeError ends the thread
WatchdogClose(c) ==
    /\ wpc[c] = "close"
    /\ Close(c, "watchdog")
    /\ wpc' = [wpc EXCEPT ![c] = IF CloseRaises(c) THEN "dead" ELSE "check"]
    /\ UNCHANGED <<cfgVars, connections, lock, nConn, last_update,
                   message_count, sendVars, wlu, wake, now, sendsStarted,
                   sendsDone, nFailed, overlap, evictions, broken, order>>

\* ---- time.monotonic() advances

Tick ==
    /\ now < MaxTime
    /\ now' = now + 1
    /\ UNCHANGED <<cfgVars, connections, lock, nConn, connVars, sendVars,
                   wdVars, histVars>>

Next ==
    \/ Tick
    \/ \E t \in Threads : SendLock(t)
    \/ \E t \in Threads : SendPop(t)
    \/ \E t \in Threads : Connect(t)
    \/ \E t \in Threads : ConnectFails(t)
    \/ \E t \in Threads : ConnectionSend(t)
    \/ \E t \in Threads : ConnectionSendFails(t)
    \/ \E t \in Threads : SendClose(t)
    \/ \E t \in Threads : SendStamp(t)
    \/ \E t \in Threads : SendAppendLock(t)
    \/ \E t \in Threads : SendAppend(t)
    \/ \E c \in Conns : WatchdogCheck(c)
    \/ \E c \in Conns : WatchdogRead(c)
    \/ \E c \in Conns : WatchdogCalc(c)
    \/ \E c \in Conns : WatchdogWake(c)
    \/ \E c \in Conns : WatchdogRemoveLock(c)
    \/ \E c \in Conns : WatchdogRemove(c)
    \/ \E c \in Conns : WatchdogClose(c)

Spec == Init /\ [][Next]_vars

TypeOK ==
    /\ keep_alive \in KeepAliveValues
    /\ max_messages \in MaxMessagesValues
    /\ nConn \in 0..MaxConns
    /\ \A i \in 1..Len(connections) : connections[i] \in 1..nConn
    /\ now \in 0..MaxTime
    /\ \A c \in Conns : last_update[c] \in {NoTime} \cup 0..MaxTime
    /\ \A t \in Threads : conn[t] \in {NoConn} \cup 1..nConn

\* ---- properties

AllIdle == \A t \in Threads : pc[t] = "idle"

\* C1: no connection is held by two send calls at the same time, and a
\* connection in the idle list is held by no send call.
C1_ExclusiveUse ==
    /\ \A t, u \in Threads :
          (t # u /\ conn[t] # NoConn) => conn[t] # conn[u]
    /\ \A c \in Conns : InList(connections, c) => ~Leased(c)

\* C1 witness: two sends are in progress at once on two connections, one of
\* them on a connection that has served a send before.
C1_Witness ==
    /\ pc[1] = "release" /\ pc[2] = "send"
    /\ message_count[conn[2]] >= 1
    /\ conn[1] # NoConn

\* C2: with max_messages >= 0, no connection whose message_count has reached
\* max_messages is in the idle list or has been handed to a send by the pop.
C2_BoundReachedNeverAcquired ==
    max_messages >= 0 =>
        /\ \A c \in Conns :
              InList(connections, c) => message_count[c] < max_messages
        /\ \A t \in Threads :
              pc[t] = "send" => message_count[conn[t]] < max_messages

\* C2 witness: a connection reached the bound and was closed by send, and a
\* later send has acquired a connection.
C2_Witness ==
    /\ max_messages = 3
    /\ message_count[1] = 3 /\ closedBy[1] = "send"
    /\ \E t \in Threads : pc[t] = "send" /\ conn[t] = 2

\* ---- scheduling: a runnable thread is eventually run

\* all the steps of the watchdog thread of connection c
Watchdog(c) ==
    \/ WatchdogCheck(c)
    \/ WatchdogRead(c)
    \/ WatchdogCalc(c)
    \/ WatchdogWake(c)
    \/ WatchdogRemoveLock(c)
    \/ WatchdogRemove(c)
    \/ WatchdogClose(c)

\* the steps of a request thread inside a `with self.lock` block: the block
\* holds no blocking call, so its holder leaves it
SendLocked(t) == SendPop(t) \/ SendAppend(t)

\* The interpreter switches threads at bounded intervals, so a watchdog that
\* can step does step, a thread inside a lock block leaves it, and the clock
\* advances.  No request has to arrive and no network call has to return.
Fairness ==
    /\ WF_vars(Tick)
    /\ \A c \in Conns : WF_vars(Watchdog(c))
    /\ \A t \in Threads : WF_vars(SendLocked(t))

\* the runs under fairness: keep_alive is the expiring one, with and without
\* a bound on the messages of a connection
FairInit == Init /\ keep_alive = 2 /\ max_messages \in {-1, 1}

FairSpec == FairInit /\ [][Next]_vars /\ Fairness

\* c has been idle in the list for keep_alive seconds or more
Expired(c) ==
    /\ keep_alive > 0
    /\ InList(connections, c)
    /\ last_update[c] # NoTime
    /\ now - last_update[c] >= keep_alive

\* C3: with keep_alive = K > 0, a connection idle in the list for K seconds
\* or more is, unless a send acquires it first, removed from the list and
\* closed by its watchdog; the watchdog's removal of a connection succeeds
\* at most once.
C3_ExpiredIsEvictedOnce ==
    /\ [](keep_alive > 0 => \A c \in Conns : evictions[c] <= 1)
    /\ \A c \in Conns :
          Expired(c) ~> (Leased(c) \/
                         (~InList(connections, c) /\ closedBy[c] = "watchdog"))

\* C4: with keep_alive = 0, whenever no send is in progress the idle list is
\* empty and every send so far made exactly one connect and one close of the
\* connection it used (no connection served two sends).
C4_NoPoolingAtZero ==
    (keep_alive = 0 /\ AllIdle /\ nFailed = 0) =>
        /\ connections = <<>>
        /\ nConn = sendsDone
        /\ \A c \in 1..nConn :
              message_count[c] = 1 /\ closeCalls[c] = 1 /\ ~sockOpen[c]

\* C5: with keep_alive = -1 and no bound on the messages, two sends that
\* both acquire before either releases make exactly 2 connects, and once
\* both have returned both connections are in the idle list.
C5_TwoConcurrentSendsPooled ==
    (/\ keep_alive = -1 /\ max_messages = -1
     /\ sendsStarted = 2 /\ sendsDone = 2 /\ overlap) =>
        /\ nConn = 2
        /\ InList(connections, 1) /\ InList(connections, 2)

\* C6: with keep_alive > 0 (5 in the scenario) and max_messages = 3,
\* successful sends issued one after the other with no eviction in between
\* use one connection for the first three, the third closes it at its bound
\* and the fourth connects afresh: 4 sends make exactly 2 connects.
C6_Sequential == ~overlap /\ nFailed = 0 /\ AllIdle /\
                 \A c \in Conns : evictions[c] = 0

C6_RotationAfterThree ==
    (keep_alive > 0 /\ max_messages = 3 /\ C6_Sequential) =>
        /\ sendsDone \in 1..3 =>
              /\ nConn = 1
              /\ message_count[1] = sendsDone
              /\ (sendsDone < 3 => connections = <<1>> /\ sockOpen[1])
              /\ (sendsDone = 3 => connections = <<>> /\ closedBy[1] = "send")
        /\ sendsDone = 4 =>
              /\ nConn = 2
              /\ message_count[1] = 3 /\ closedBy[1] = "send"
              /\ message_count[2] = 1 /\ connections = <<2>>

\* C6 witness: the scenario's options, four sequential sends have returned.
C6_Witness ==
    keep_alive = 5 /\ max_messages = 3 /\ C6_Sequential /\ sendsDone = 4

\* C7: with max_messages = -1 send never closes a connection; a connection
\* whose sends all succeeded is leased, or stamped and in the idle list, or
\* has been removed by its watchdog.
C7_NeverRotated ==
    max_messages = -1 =>
        \A c \in 1..nConn :
            /\ closedBy[c] # "send"
            /\ InList(connections, c) => last_update[c] # NoTime
            /\ ~broken[c] =>
                  Leased(c) \/ InList(connections, c) \/ evictions[c] >= 1

\* C7 witness: one connection has served three sends and is idle again.
C7_Witness ==
    /\ max_messages = -1
    /\ message_count[1] = 3 /\ ~broken[1]
    /\ InList(connections, 1) /\ last_update[1] # NoTime

\* C8: a connection whose socket has been closed is not in the idle list
\* and is held by no send.
C8_ClosedNeverPooled ==
    \A c \in 1..nConn :
        ~sockOpen[c] => ~InList(connections, c) /\ ~Leased(c)

\* C8 witness: the watchdog has closed a connection and a send has since
\* acquired another one.
C8_Witness ==
    /\ closedBy[1] = "watchdog" /\ ~sockOpen[1]
    /\ \E t \in Threads : pc[t] = "send" /\ conn[t] = 2

RotatedWhenSendsReturn ==
    max_messages >= 0 =>
        \A c \in 1..nConn :
            (message_count[c] >= max_messages /\ ~Leased(c) /\ ~broken[c]) =>
                ~sockOpen[c] /\ ~InList(connections, c)

\* C10: close() is invoked at most once on any connection.
C10_ClosedAtMostOnce == \A c \in Conns : closeCalls[c] <= 1

\* C10 witness: one connection was closed by its watchdog and another by
\* the rotation in send.
C10_Witness ==
    \E c, d \in 1..nConn : closedBy[c] = "watchdog" /\ closedBy[d] = "send"

\* C11: the lock is held only inside the two blocks of send (pop, append)
\* and the block of the watchdog (remove): no thread holds it while it
\* connects, sends, closes or sleeps, so a thread blocked in a send keeps
\* no other thread out of the idle list.
C11_LockOnlyAroundList ==
    /\ \A t \in Threads :
          lock = SendHolder(t) <=> pc[t] \in {"pop", "append"}
    /\ \A c \in Conns :
          lock = WatchdogHolder(c) <=> wpc[c] = "remove"

\* C11 witness: one thread is inside connection.send while another thread
\* holds the lock for its pop.
C11_Witness ==
    /\ pc[1] = "send"
    /\ pc[2] = "pop" /\ lock = SendHolder(2)

\* C12: a connect that fails ends the call at once with the error: the
\* thread leaves send without a second attempt, no MllpConnection exists
\* for it, nothing enters the idle list and no watchdog is started.
C12_ConnectFailureLeavesNothing ==
    [][\A t \in Threads :
          (pc[t] = "connect" /\ pc'[t] # "connect") =>
              \/ /\ pc'[t] = "send"
                 /\ nConn' = nConn + 1 /\ conn'[t] = nConn + 1
                 /\ nFailed' = nFailed
              \/ /\ pc'[t] = "idle"
                 /\ nFailed' = nFailed + 1 /\ sendsStarted' = sendsStarted
                 /\ conn'[t] = NoConn
                 /\ nConn' = nConn /\ connections' = connections
                 /\ wpc' = wpc /\ sockOpen' = sockOpen]_vars

\* C12 witness: a send has raised on its connect: no connection exists, the
\* idle list is empty and no watchdog runs.
C12_Witness ==
    /\ nFailed = 1 /\ sendsStarted = 1 /\ AllIdle
    /\ nConn = 0 /\ connections = <<>>
    /\ \A c \in Conns : wpc[c] = "off"

\* C13: a watchdog at its loop test whose connection it has evicted, or
\* whose connection has been closed, leaves the loop.
C13_WatchdogExits ==
    [][\A c \in Conns :
          (/\ wpc[c] = "check"
           /\ evictions[c] >= 1 \/ closeCalls[c] >= 1
           /\ wpc'[c] # "check") => wpc'[c] = "exit"]_vars

\* the watchdog's remove finds its connection gone from the idle list
RemoveFails(c) == wpc[c] = "remove" /\ ~InList(connections, c)

\* C14 as stated: a watchdog whose remove fails terminates, closing nothing.
C14_LostRaceTerminates ==
    [][\A c \in Conns :
          (RemoveFails(c) /\ wpc'[c] # "remove") =>
              /\ wpc'[c] = "exit"
              /\ closeCalls' = closeCalls /\ sockOpen' = sockOpen]_vars

\* C14 as amended: a watchdog whose remove fails closes nothing, changes
\* nothing in the idle list and goes back to the test of its loop.
C14_LostRaceLoopsOn ==
    [][\A c \in Conns :
          (RemoveFails(c) /\ wpc'[c] # "remove") =>
              /\ wpc'[c] = "check"
              /\ closeCalls' = closeCalls /\ sockOpen' = sockOpen
              /\ connections' = connections]_vars

\* C14 witness: a watchdog is inside its remove block while a send holds
\* its connection.
C14_Witness ==
    \E c \in 1..nConn :
        wpc[c] = "remove" /\ lock = WatchdogHolder(c) /\ Leased(c)

\* C15: the watchdog never closes a leased connection; it is about to close
\* or has closed only a connection that it removed from the idle list
\* itself and that no send holds.
C15_LeasedNeverEvicted ==
    \A c \in 1..nConn :
        /\ Leased(c) => wpc[c] # "close" /\ closedBy[c] # "watchdog"
        /\ (wpc[c] = "close" \/ closedBy[c] = "watchdog") =>
              evictions[c] >= 1 /\ ~InList(connections, c)

\* C15 witness: the watchdog of an expired connection is on its way to the
\* removal while a send has the connection on lease.
C15_Witness ==
    \E c \in 1..nConn :
        keep_alive > 0 /\ Leased(c) /\ wpc[c] = "removelock"

\* C16: with keep_alive < 0 the watchdog never closes: what it removes from
\* the idle list keeps its socket open.
C16_NegativeNeverCloses ==
    keep_alive < 0 =>
        \A c \in 1..nConn :
            /\ wpc[c] # "close" /\ closedBy[c] # "watchdog"
            /\ (evictions[c] >= 1 /\ closedBy[c] = "none") => sockOpen[c]

\* C16 witness: the watchdog has removed a connection and its socket is open.
C16_Witness ==
    /\ keep_alive < 0
    /\ evictions[1] = 1 /\ ~InList(connections, 1) /\ sockOpen[1]

Range(s) == {s[i] : i \in 1..Len(s)}

\* calls of connection.send so far, over all connections
RECURSIVE TotalSent(_)
TotalSent(n) == IF n = 0 THEN 0 ELSE message_count[n] + TotalSent(n - 1)

\* C17: the pop hands out the connection appended last among those idle at
\* that moment, and send goes to connect only when none is idle.
C17_LifoAcquisition ==
    /\ [](Range(order) = Range(connections))
    /\ [][\A t \in Threads :
            (pc[t] = "pop" /\ pc'[t] # "pop") =>
                IF order = <<>>
                THEN pc'[t] = "connect" /\ conn'[t] = NoConn
                ELSE /\ pc'[t] = "send"
                     /\ conn'[t] = order[Len(order)]
                     /\ nConn' = nConn]_vars

\* C17 witness: a send is inside its pop block with two connections idle.
C17_Witness ==
    \E t \in Threads :
        pc[t] = "pop" /\ Len(connections) = 2 /\ Len(order) = 2

\* C18: a connection on which a send raised is in the idle list no more and
\* no send holds it; a call of send makes at most one connect and at most
\* one connection.send.
C18_FailedNeverPooled ==
    /\ \A c \in 1..nConn :
          broken[c] => ~InList(connections, c) /\ ~Leased(c)
    /\ TotalSent(nConn) <= sendsStarted
    /\ nConn <= sendsStarted

\* C18 witness: a send raised on connection 1 and a later send has acquired
\* connection 2.
C18_Witness ==
    /\ broken[1] /\ nFailed >= 1
    /\ \E t \in Threads : pc[t] = "send" /\ conn[t] = 2

\* C19: the watchdog's second read of last_update, the one it subtracts
\* from, never finds None, so no watchdog thread dies.
C19_SecondReadNeverNone ==
    \A c \in Conns :
        /\ wpc[c] = "read" => last_update[c] # NoTime
        /\ wpc[c] # "dead"

\* C20: with keep_alive > 0 every open socket is on lease to a send, in the
\* idle list, or in the hands of the watchdog that has just removed it and
\* is about to close it.
C20_NoOrphanSocket ==
    keep_alive > 0 =>
        \A c \in 1..nConn :
            sockOpen[c] =>
                Leased(c) \/ InList(connections, c) \/ wpc[c] = "close"

====
